---- MODULE Spec2Model ----
(***************************************************************************)
(* onair-link: a DJ mixer's MIDI events are turned into Pro DJ Link        *)
(* "on air" and "fader start" packets (src/onair-link.py).                 *)
(*                                                                         *)
(* The model has the engine (class MidiMain), the packet codec (class      *)
(* ProDjLink), the mixer tables (the DJM* enums) and the main loop with    *)
(* its search / connect / detach lifecycle.                                *)
(*                                                                         *)
(* Python values are represented as follows:                               *)
(*   bytes        a sequence of integers 0..255                            *)
(*   None (bytes) NONE, a sequence no packet can equal                     *)
(*   str label    a TLA+ string, None being the string "None"              *)
(*   list         a sequence; Python index i is TLA+ index i + 1           *)
(*   event        a record [type, param, value]; for a note event param    *)
(*                is event.note and value is event.velocity                *)
(***************************************************************************)
EXTENDS Integers, Sequences, FiniteSets, TLC

VARIABLES
    pc,                 \* position of main: "search", "main" or "exit"
    exc,                \* why the process exited ("" while it runs)
    port,               \* client name of the ALSA port now present, or NoPort
    midi_main,          \* the MidiMain object of main (NoEngine before the search ends)
    last_src_port_name, \* main's local of that name
    pkt,                \* main's local pkt: what wait_handle_input_event returned last
    sent_onair,         \* history: the on-air packets this engine returned, in order
    run_flips,          \* history: per channel, flips of onair_fader in the current monotone run
    nev,                \* history: number of events handled
    nplug,              \* history: number of devices plugged in
    dev_name            \* the device name the packets are built with (DEVICE_NAME)

vars == <<pc, exc, port, midi_main, last_src_port_name, pkt, sent_onair, run_flips, nev, nplug,
         dev_name>>

(***************************************************************************)
(* Bounds of the model.                                                    *)
(***************************************************************************)
MaxEvents == 3
MaxPlugs == 2
\* longest device name given to the packet codec, in characters
MaxNameLen == 21

(***************************************************************************)
(* Constants of the program.                                               *)
(***************************************************************************)
\* DEVICE_NAME = 'On Air Link', as code points
DEVICE_NAME == <<79, 110, 32, 65, 105, 114, 32, 76, 105, 110, 107>>

\* ProDjLink._HEADER
HEADER == <<81, 115, 112, 116, 49, 87, 109, 74, 79, 76>>

MAX_DEVICE_NAME_LEN == 20

FADER_TRESHOLD == 1

CH_FADER_LOW_SLOPE_THRESHOLD == 2

\* what the metaclass DJMEnumMeta returns for an attribute the enum lacks
ATTR_NONE == -1

\* a plain IntEnum raises AttributeError for an attribute it lacks
ATTR_ERROR == -2

NONE == << -1 >>

EMPTY == << >>

NoPort == "None"

(***************************************************************************)
(* The mixer tables.                                                       *)
(***************************************************************************)
DJM250MK2 ==
    [name |-> "DJM250MK2", CH_MAX |-> 2, CROSS_FADER |-> 11, CH1_FADER |-> 17,
     FIRST_CROSS_FADER_ASSIGN |-> 96, CH_FADER |-> ATTR_NONE,
     FADER_START1_NOTE |-> ATTR_NONE]

\* DJM450 with a slip: the 2-channel table given a fader curve address
DJM450_with_curve ==
    [name |-> "DJM450", CH_MAX |-> 2, CROSS_FADER |-> 11, CH1_FADER |-> 17,
     FIRST_CROSS_FADER_ASSIGN |-> 96, CH_FADER |-> 94,
     FADER_START1_NOTE |-> ATTR_NONE]

DJM450 ==
    [name |-> "DJM450", CH_MAX |-> 2, CROSS_FADER |-> 11, CH1_FADER |-> 17,
     FIRST_CROSS_FADER_ASSIGN |-> 96, CH_FADER |-> ATTR_NONE,
     FADER_START1_NOTE |-> ATTR_NONE]

DJM750 ==
    [name |-> "DJM750", CH_MAX |-> 4, CROSS_FADER |-> 11, CH1_FADER |-> 17,
     FIRST_CROSS_FADER_ASSIGN |-> 65, CH_FADER |-> 94,
     FADER_START1_NOTE |-> ATTR_ERROR]

DJM750MK2 ==
    [name |-> "DJM750MK2", CH_MAX |-> 4, CROSS_FADER |-> 11, CH1_FADER |-> 17,
     FIRST_CROSS_FADER_ASSIGN |-> 65, CH_FADER |-> 94,
     FADER_START1_NOTE |-> ATTR_ERROR]

DJM850 ==
    [name |-> "DJM850", CH_MAX |-> 4, CROSS_FADER |-> 11, CH1_FADER |-> 17,
     FIRST_CROSS_FADER_ASSIGN |-> 65, CH_FADER |-> 94,
     FADER_START1_NOTE |-> 102]

\* get_djm_enum's None
NoEnum ==
    [name |-> "None", CH_MAX |-> ATTR_ERROR, CROSS_FADER |-> ATTR_ERROR,
     CH1_FADER |-> ATTR_ERROR, FIRST_CROSS_FADER_ASSIGN |-> ATTR_ERROR,
     CH_FADER |-> ATTR_ERROR, FADER_START1_NOTE |-> ATTR_ERROR]

get_djm_enum(client_name) ==
    CASE client_name = "DJM-250MK2" -> DJM250MK2
      [] client_name = "DJM-450"    -> DJM450
      [] client_name = "DJM-750"    -> DJM750
      [] client_name = "DJM-750MK2" -> DJM750MK2
      [] client_name = "DJM-850"    -> DJM850
      [] OTHER                      -> NoEnum

(***************************************************************************)
(* The packet codec (class ProDjLink).                                     *)
(***************************************************************************)
\* str.encode() of one code point (UTF-8)
Utf8(c) ==
    IF c < 128 THEN <<c>>
    ELSE IF c < 2048 THEN <<192 + (c \div 64), 128 + (c % 64)>>
    ELSE IF c < 65536
         THEN <<224 + (c \div 4096), 128 + ((c \div 64) % 64), 128 + (c % 64)>>
         ELSE <<240 + (c \div 262144), 128 + ((c \div 4096) % 64),
                128 + ((c \div 64) % 64), 128 + (c % 64)>>

RECURSIVE encode(_)
encode(s) == IF s = << >> THEN << >> ELSE Utf8(Head(s)) \o encode(Tail(s))

\* str.ljust(width, '\0')
ljust(s, width) ==
    IF Len(s) >= width THEN s ELSE s \o [i \in 1..(width - Len(s)) |-> 0]

\* a lone surrogate: str.encode() raises UnicodeEncodeError on it
IsSurrogate(c) == c \in 55296..57343

\* _format_device_name raises: a surrogate is among the characters it encodes
format_device_name_raises(device_name) ==
    \E i \in 1..Len(device_name) : i <= MAX_DEVICE_NAME_LEN /\ IsSurrogate(device_name[i])

format_device_name(device_name) ==
    LET padded == ljust(device_name, MAX_DEVICE_NAME_LEN)
        ret_dev_name == SubSeq(padded, 1, MAX_DEVICE_NAME_LEN)
    IN  encode(ret_dev_name)

\* bytes(list of bool)
BoolBytes(bs) == [i \in 1..Len(bs) |-> IF bs[i] THEN 1 ELSE 0]

onair_pkt(device_name, onair_ch) ==
    HEADER \o <<3>> \o format_device_name(device_name) \o <<1, 0, 0, 0, 9>>
           \o BoolBytes(onair_ch) \o <<0, 0, 0, 0, 0>>

\* fader_start_pkt with a slip: the states start as 0 (PLAY), not as 2
fader_start_pkt_default_play(device_name, channel, stop) ==
    LET ch_state == [i \in 1..4 |-> IF i = channel + 1
                                    THEN (IF stop THEN 1 ELSE 0) ELSE 0]
    IN  HEADER \o <<2>> \o format_device_name(device_name) \o <<1, 0, 0, 0, 4>>
               \o ch_state

\* channel is the Python index (0-based); stop is a boolean
fader_start_pkt(device_name, channel, stop) ==
    LET ch_state == [i \in 1..4 |-> IF i = channel + 1
                                    THEN (IF stop THEN 1 ELSE 0) ELSE 2]
    IN  HEADER \o <<2>> \o format_device_name(device_name) \o <<1, 0, 0, 0, 4>>
               \o ch_state

(***************************************************************************)
(* The engine (class MidiMain).                                            *)
(***************************************************************************)
NoEvent == [type |-> "None", param |-> 0, value |-> 0]

NoEngine == [djm_enum |-> NoEnum]

\* MidiMain.__init__
MidiMain(djm_enum, source_port) ==
    [djm_enum             |-> djm_enum,
     source_port          |-> source_port,
     xfader_value         |-> 64,
     xfader_channel       |-> "AB",
     cross_fader_assign   |-> [i \in 1..djm_enum.CH_MAX |-> 64],
     fader_value          |-> [i \in 1..djm_enum.CH_MAX |-> 0],
     onair_fader          |-> [i \in 1..djm_enum.CH_MAX |-> FALSE],
     fader_th             |-> FADER_TRESHOLD,
     last_fader_start_pkt |-> NONE,
     last_onair_pkt       |-> NONE,
     prev_event           |-> NoEvent]

\* int(b) of a bool
int(b) == IF b THEN 1 ELSE 0

\* one entry of __update_onair_fader
onair_of(fader_value_i, direction_down, fader_th) ==
    fader_value_i >= fader_th + int(direction_down)

\* __update_onair_fader; upd_idx is a set of Python indices within the lists
update_onair_fader(mm, direction_down, fader_th, upd_idx) ==
    [mm EXCEPT !.onair_fader =
        [i \in 1..Len(mm.onair_fader) |->
            IF (i - 1) \in upd_idx
            THEN onair_of(mm.fader_value[i], direction_down, fader_th)
            ELSE mm.onair_fader[i]]]

\* get_onair_xfader with a slip: the centre assignment is shut out of both sides
get_onair_xfader_strict(mm) ==
    IF mm.xfader_channel = "A"
    THEN [i \in 1..Len(mm.cross_fader_assign) |-> mm.cross_fader_assign[i] < 64]
    ELSE IF mm.xfader_channel = "B"
    THEN [i \in 1..Len(mm.cross_fader_assign) |-> mm.cross_fader_assign[i] > 64]
    ELSE [i \in 1..4 |-> TRUE]

get_onair_xfader(mm) ==
    IF mm.xfader_channel = "A"
    THEN [i \in 1..Len(mm.cross_fader_assign) |-> mm.cross_fader_assign[i] <= 64]
    ELSE IF mm.xfader_channel = "B"
    THEN [i \in 1..Len(mm.cross_fader_assign) |-> mm.cross_fader_assign[i] >= 64]
    ELSE [i \in 1..4 |-> TRUE]

\* [vf & vx for vf, vx in zip(onair_fader, _get_onair_xfader())]
Min(a, b) == IF a <= b THEN a ELSE b

onair_ch(mm) ==
    LET vx == get_onair_xfader(mm)
    IN  [i \in 1..Min(Len(mm.onair_fader), Len(vx)) |-> mm.onair_fader[i] /\ vx[i]]

\* xfader_region with a slip: the bounds without the margin for the direction
xfader_region_no_margin(value, xfader_value) ==
    IF value <= FADER_TRESHOLD THEN "A"
    ELSE IF value >= 127 - FADER_TRESHOLD THEN "B"
    ELSE "AB"

\* the cross fader branch: the region for a new value, given the stored one
xfader_region(value, xfader_value) ==
    IF value <= FADER_TRESHOLD - int(value > xfader_value) THEN "A"
    ELSE IF value >= 127 - (FADER_TRESHOLD - int(value < xfader_value)) THEN "B"
    ELSE "AB"

\* the cross fader branch
on_cross_fader(mm, event) ==
    [mm EXCEPT !.xfader_channel = xfader_region(event.value, mm.xfader_value),
               !.xfader_value = event.value]

\* the channel fader branch
on_channel_fader(mm, event) ==
    LET i == event.param - mm.djm_enum.CH1_FADER
        direction_down == event.value < mm.fader_value[i + 1]
        mm1 == [mm EXCEPT !.fader_value[i + 1] = event.value]
    IN  update_onair_fader(mm1, direction_down, mm.fader_th, {i})

\* on_cross_fader_assign with a slip: every mixer written by index
on_cross_fader_assign_by_index(mm, event) ==
    [mm EXCEPT !.cross_fader_assign[event.param
                   - mm.djm_enum.FIRST_CROSS_FADER_ASSIGN + 1] = event.value]

\* the cross fader assign branch
on_cross_fader_assign(mm, event) ==
    IF mm.djm_enum.CH_MAX = 2
    THEN [mm EXCEPT !.cross_fader_assign[1] = event.value,
                    !.cross_fader_assign[2] = 127 - event.value]
    ELSE [mm EXCEPT !.cross_fader_assign[event.param
                        - mm.djm_enum.FIRST_CROSS_FADER_ASSIGN + 1] = event.value]

\* new_fader_th with a slip: the two thresholds swapped
new_fader_th_inverted(value) ==
    IF value >= 64 THEN CH_FADER_LOW_SLOPE_THRESHOLD ELSE FADER_TRESHOLD

\* the threshold chosen by the channel fader curve control
new_fader_th(value) ==
    IF value >= 64 THEN FADER_TRESHOLD ELSE CH_FADER_LOW_SLOPE_THRESHOLD

\* on_ch_fader with a slip: the threshold changes, the channels are left as they were
on_ch_fader_no_update(mm, event) ==
    [mm EXCEPT !.fader_th = new_fader_th(event.value)]

\* the channel fader curve branch; range(4) must lie within the lists
on_ch_fader(mm, event) ==
    LET new == new_fader_th(event.value)
        mm1 == IF mm.fader_th # new
               THEN update_onair_fader(mm, new > mm.fader_th, new, 0..3)
               ELSE mm
    IN  [mm1 EXCEPT !.fader_th = new]

\* range(4) reaches an index the lists do not have (IndexError)
ch_fader_index_error(mm, event) ==
    /\ mm.fader_th # new_fader_th(event.value)
    /\ \E i \in 0..3 : i >= Len(mm.fader_value)

\* note_assign with a slip: the two sides of the cross fader swapped
note_assign_swapped(mm, i) ==
    LET pe == mm.prev_event
        E  == mm.djm_enum
    IN  IF pe.type = "CONTROLLER"
        THEN IF pe.param = E.CROSS_FADER
             THEN [mm EXCEPT !.cross_fader_assign[i + 1] =
                                 IF pe.value >= 64 THEN 127 ELSE 0]
             ELSE IF pe.param \in E.CH1_FADER..(E.CH1_FADER + E.CH_MAX - 1)
             THEN [mm EXCEPT !.cross_fader_assign[i + 1] = 64]
             ELSE mm
        ELSE mm

\* the assignment a fader start note infers from the event before it
note_assign(mm, i) ==
    LET pe == mm.prev_event
        E  == mm.djm_enum
    IN  IF pe.type = "CONTROLLER"
        THEN IF pe.param = E.CROSS_FADER
             THEN [mm EXCEPT !.cross_fader_assign[i + 1] =
                                 IF pe.value >= 64 THEN 0 ELSE 127]
             ELSE IF pe.param \in E.CH1_FADER..(E.CH1_FADER + E.CH_MAX - 1)
             THEN [mm EXCEPT !.cross_fader_assign[i + 1] = 64]
             ELSE mm
        ELSE mm

\* emit_if_changed with a slip: the packet goes out every time
emit_always(p, last, out_pkt) == p

\* pkt != last: the packet goes out, else out_pkt stays what it was
emit_if_changed(p, last, out_pkt) == IF p # last THEN p ELSE out_pkt

\* the note branch, for a note within the fader start range
on_fader_start(mm, event) ==
    LET i   == event.param - mm.djm_enum.FADER_START1_NOTE
        p   == fader_start_pkt(DEVICE_NAME, i, event.value = 0)
        out == emit_if_changed(p, mm.last_fader_start_pkt, EMPTY)
        mm1 == [mm EXCEPT !.last_fader_start_pkt = p]
    IN  [mm |-> note_assign(mm1, i), out_pkt |-> out]

\* send_onair with a slip: the packet is built from the faders alone, the cross
\* fader gate left out
send_onair_ungated(mm, event, send_onair_pkt, out_pkt) ==
    LET p   == onair_pkt(DEVICE_NAME, mm.onair_fader)
        out == IF send_onair_pkt
               THEN emit_if_changed(p, mm.last_onair_pkt, out_pkt)
               ELSE out_pkt
        mm1 == IF send_onair_pkt THEN [mm EXCEPT !.last_onair_pkt = p] ELSE mm
    IN  [mm |-> [mm1 EXCEPT !.prev_event = event], ret |-> out, raised |-> ""]

\* the end of wait_handle_input_event
send_onair(mm, event, send_onair_pkt, out_pkt) ==
    LET p   == onair_pkt(DEVICE_NAME, onair_ch(mm))
        out == IF send_onair_pkt
               THEN emit_if_changed(p, mm.last_onair_pkt, out_pkt)
               ELSE out_pkt
        mm1 == IF send_onair_pkt THEN [mm EXCEPT !.last_onair_pkt = p] ELSE mm
    IN  [mm |-> [mm1 EXCEPT !.prev_event = event], ret |-> out, raised |-> ""]

raise(mm, what) == [mm |-> mm, ret |-> NONE, raised |-> what]

InRange(x, first, n) == x \in first..(first + n - 1)

\* wait_handle_input_event, for an event that event_input() returned
wait_handle_input_event(mm, event) ==
    LET E   == mm.djm_enum
        mm0 == IF mm.prev_event = NoEvent THEN [mm EXCEPT !.prev_event = event] ELSE mm
    IN  IF event.type = "CONTROLLER"
        THEN IF event.param = E.CROSS_FADER
             THEN send_onair(on_cross_fader(mm0, event), event, TRUE, EMPTY)
             ELSE IF InRange(event.param, E.CH1_FADER, E.CH_MAX)
             THEN send_onair(on_channel_fader(mm0, event), event, TRUE, EMPTY)
             ELSE IF InRange(event.param, E.FIRST_CROSS_FADER_ASSIGN, E.CH_MAX)
             THEN send_onair(on_cross_fader_assign(mm0, event), event, TRUE, EMPTY)
             ELSE IF E.CH_FADER = ATTR_ERROR
             THEN raise(mm0, "wait_handle_input_event: AttributeError")
             ELSE IF E.CH_FADER # ATTR_NONE /\ event.param = E.CH_FADER
             THEN IF ch_fader_index_error(mm0, event)
                  THEN raise(mm0, "wait_handle_input_event: IndexError")
                  ELSE send_onair(on_ch_fader(mm0, event), event, TRUE, EMPTY)
             ELSE send_onair(mm0, event, FALSE, EMPTY)
        ELSE IF event.type = "NOTEON"
        THEN IF E.FADER_START1_NOTE = ATTR_ERROR
             THEN raise(mm0, "wait_handle_input_event: AttributeError")
             ELSE IF E.FADER_START1_NOTE # ATTR_NONE /\ E.FADER_START1_NOTE # 0
             THEN IF InRange(event.param, E.FADER_START1_NOTE, E.CH_MAX)
                  THEN LET r == on_fader_start(mm0, event)
                       IN  send_onair(r.mm, event, TRUE, r.out_pkt)
                  ELSE send_onair(mm0, event, FALSE, EMPTY)
             ELSE send_onair(mm0, event, FALSE, EMPTY)
        ELSE send_onair(mm0, event, FALSE, EMPTY)

(***************************************************************************)
(* The events and devices the environment supplies.                        *)
(***************************************************************************)
CC(param, value) == [type |-> "CONTROLLER", param |-> param, value |-> value]

NoteOn(note, velocity) == [type |-> "NOTEON", param |-> note, value |-> velocity]

\* an event that is neither a controller nor a note-on event
ProgramChange == [type |-> "PGMCHANGE", param |-> 0, value |-> 0]

XFaderValues == {0, 1, 2, 64, 125, 126, 127}

FaderValues == {0, 1, 2, 3}

AssignValues == {0, 64, 127}

SlopeValues == {63, 64}

Velocities == {0, 127}

\* the first and the last channel of a mixer (Python indices)
Channels(E) == {0, E.CH_MAX - 1}

\* the control number of the channel fader curve and the first start note of the
\* tables that have them; sent to every mixer
SlopeParam == DJM850.CH_FADER

StartNote == DJM850.FADER_START1_NOTE

\* the events fed to an engine of table E
Events(E) ==
    {CC(E.CROSS_FADER, v) : v \in XFaderValues}
    \cup {CC(E.CH1_FADER + i, v) : i \in Channels(E), v \in FaderValues}
    \cup {CC(E.FIRST_CROSS_FADER_ASSIGN + i, v) : i \in Channels(E), v \in AssignValues}
    \cup {CC(SlopeParam, v) : v \in SlopeValues}
    \cup {CC(E.CH1_FADER + E.CH_MAX, 64)}
    \cup {NoteOn(StartNote + i, v) : i \in Channels(E), v \in Velocities}
    \cup {NoteOn(StartNote + E.CH_MAX, 127)}
    \cup {ProgramChange}

\* the events fed to an engine while the lifecycle is explored: one per branch
SessionEvents(E) ==
    {CC(E.CROSS_FADER, 127), CC(E.CH1_FADER, 3), CC(E.FIRST_CROSS_FADER_ASSIGN, 0),
     CC(SlopeParam, 0), NoteOn(StartNote, 0)}

KnownLabels == {"DJM-250MK2", "DJM-450", "DJM-750", "DJM-750MK2", "DJM-850"}

\* a mixer that no table knows, and a device that is no mixer
Labels == KnownLabels \cup {"DJM-900NXS", "MPK mini"}

\* 'DJM' in client_name
HasDJM(client_name) == client_name \in KnownLabels \cup {"DJM-900NXS"}

\* find_port(client, 'DJM'), the port list holding p or nothing
find_port(p) == IF p # NoPort /\ HasDJM(p) THEN p ELSE ""

(***************************************************************************)
(* History.                                                                *)
(***************************************************************************)
IsOnair(p) == Len(p) > Len(HEADER) /\ p[Len(HEADER) + 1] = 3

IsFaderStart(p) == Len(p) > Len(HEADER) /\ p[Len(HEADER) + 1] = 2

NoFlips(E) == [i \in 1..E.CH_MAX |-> [dec |-> 0, inc |-> 0]]

Cap2(n) == IF n > 2 THEN 2 ELSE n

\* flips of onair_fader counted over the transitions of the current run of
\* non-increasing (dec) and of non-decreasing (inc) levels of each channel fader,
\* the threshold being fixed (a run starts anew, with no flip counted, at the
\* event that breaks it)
flips_after(flips, mm, mm2, event) ==
    IF mm2.fader_th # mm.fader_th THEN NoFlips(mm.djm_enum)
    ELSE IF event.type = "CONTROLLER"
            /\ InRange(event.param, mm.djm_enum.CH1_FADER, mm.djm_enum.CH_MAX)
    THEN LET i == event.param - mm.djm_enum.CH1_FADER + 1
             f == int(mm2.onair_fader[i] # mm.onair_fader[i])
         IN  [flips EXCEPT
                ![i].dec = IF event.value <= mm.fader_value[i] THEN Cap2(@ + f) ELSE 0,
                ![i].inc = IF event.value >= mm.fader_value[i] THEN Cap2(@ + f) ELSE 0]
    ELSE flips

(***************************************************************************)
(* The steps of main.                                                      *)
(***************************************************************************)
Attached == pc = "main" /\ midi_main.source_port # NoPort

\* a device is plugged in
PlugIn(label) ==
    /\ pc # "exit"
    /\ port = NoPort
    /\ nplug < MaxPlugs
    /\ port' = label
    /\ nplug' = nplug + 1
    /\ UNCHANGED <<pc, exc, midi_main, last_src_port_name, pkt, sent_onair, run_flips, nev,
                   dev_name>>

\* the device is unplugged
Unplug ==
    /\ pc # "exit"
    /\ port # NoPort
    /\ port' = NoPort
    /\ UNCHANGED <<pc, exc, midi_main, last_src_port_name, pkt, sent_onair, run_flips, nev, nplug,
                   dev_name>>

\* one turn of the loop "while midi_main == None"
Search ==
    /\ pc = "search"
    /\ LET djm_enum == get_djm_enum(find_port(port))
       IN  IF djm_enum # NoEnum
           THEN /\ midi_main' = MidiMain(djm_enum, NoPort)
                /\ run_flips' = NoFlips(djm_enum)
                /\ pc' = "main"
           ELSE UNCHANGED <<midi_main, run_flips, pc>>
    /\ UNCHANGED <<exc, port, last_src_port_name, pkt, sent_onair, nev, nplug, dev_name>>

\* device_changed with a slip: never a new engine, or one at every reattach
device_changed_never(last, client_name) == FALSE

device_changed_always(last, client_name) == last # NoPort

\* "If USB MIDI device has changed": the test that forces a new engine
device_changed(last, client_name) == last # NoPort /\ last # client_name

\* one turn of the main loop with source_port == None: connect_port and,
\* for another device than the last, a new engine
Connect ==
    /\ pc = "main"
    /\ midi_main.source_port = NoPort
    /\ IF find_port(port) = ""
       THEN UNCHANGED <<pc, exc, midi_main, last_src_port_name, sent_onair, run_flips>>
       ELSE LET changed == device_changed(last_src_port_name, port)
                djm_enum == get_djm_enum(port)
            IN  IF changed /\ djm_enum = NoEnum
                THEN /\ pc' = "exit"
                     /\ exc' = "MidiMain.__init__: AttributeError"
                     /\ midi_main' = [midi_main EXCEPT !.source_port = port]
                     /\ UNCHANGED <<last_src_port_name, sent_onair, run_flips>>
                ELSE /\ midi_main' = IF changed THEN MidiMain(djm_enum, port)
                                     ELSE [midi_main EXCEPT !.source_port = port]
                     /\ sent_onair' = IF changed THEN << >> ELSE sent_onair
                     /\ run_flips' = IF changed THEN NoFlips(djm_enum) ELSE run_flips
                     /\ last_src_port_name' = port
                     /\ UNCHANGED <<pc, exc>>
    /\ UNCHANGED <<port, pkt, nev, nplug, dev_name>>

\* the exits of the process on an exception that is no Exception (Ctrl-C)
INTERRUPTED_INPUT == "wait_handle_input_event: sys.exit(1) on KeyboardInterrupt"

INTERRUPTED_SEND == "main: sys.exit(1) on KeyboardInterrupt"

\* wait_handle_input_event when event_input() delivers no event: it raises an
\* Exception or the port is unsubscribed (the engine lets go of the port and
\* None is returned), or it raises anything else (the process exits)
Detach ==
    /\ Attached
    /\ \/ /\ midi_main' = [midi_main EXCEPT !.source_port = NoPort]
          /\ pkt' = NONE
          /\ UNCHANGED <<pc, exc>>
       \/ /\ pc' = "exit"
          /\ exc' = INTERRUPTED_INPUT
          /\ UNCHANGED <<midi_main, pkt>>
    /\ UNCHANGED <<port, last_src_port_name, sent_onair, run_flips, nev, nplug, dev_name>>

\* wait_handle_input_event for an event that event_input() returns (the device
\* may be gone already), and the send of the packet returned: sendto either
\* returns or raises an Exception (the loop goes on), or it raises anything else
\* (the process exits)
HandleEvent(event) ==
    /\ Attached
    /\ nev < MaxEvents
    /\ \E r \in {wait_handle_input_event(midi_main, event)} :
       \E sendto \in {"continue", "exit"} :
           /\ sendto = "exit" => r.raised = "" /\ r.ret # EMPTY
           /\ midi_main' = r.mm
           /\ pc' = IF r.raised # "" \/ sendto = "exit" THEN "exit" ELSE pc
           /\ exc' = IF sendto = "exit" THEN INTERRUPTED_SEND ELSE r.raised
           /\ pkt' = IF r.raised # "" THEN pkt ELSE r.ret
           /\ sent_onair' = IF IsOnair(r.ret) THEN Append(sent_onair, r.ret) ELSE sent_onair
           /\ run_flips' = flips_after(run_flips, midi_main, r.mm, event)
    /\ nev' = nev + 1
    /\ UNCHANGED <<port, last_src_port_name, nplug, dev_name>>

(***************************************************************************)
(* Spec: the program from its start, the devices coming and going.         *)
(***************************************************************************)
Init ==
    /\ pc = "search"
    /\ exc = ""
    /\ port = NoPort
    /\ midi_main = NoEngine
    /\ last_src_port_name = NoPort
    /\ pkt = NONE
    /\ sent_onair = << >>
    /\ run_flips = << >>
    /\ nev = 0
    /\ nplug = 0
    /\ dev_name = DEVICE_NAME

Next ==
    \/ \E label \in Labels : PlugIn(label)
    \/ Unplug
    \/ Search
    \/ Connect
    \/ Detach
    \/ \E event \in SessionEvents(midi_main.djm_enum) : HandleEvent(event)

Spec == Init /\ [][Next]_vars

(***************************************************************************)
(* SpecEngine: one engine, built for a known mixer and connected to it,    *)
(* fed every event of Events.                                              *)
(***************************************************************************)
InitEngine ==
    \E label \in KnownLabels :
        /\ pc = "main"
        /\ exc = ""
        /\ port = label
        /\ midi_main = MidiMain(get_djm_enum(label), label)
        /\ last_src_port_name = label
        /\ pkt = NONE
        /\ sent_onair = << >>
        /\ run_flips = NoFlips(get_djm_enum(label))
        /\ nev = 0
        /\ nplug = 1
        /\ dev_name = DEVICE_NAME

NextEngine == \E event \in Events(midi_main.djm_enum) : HandleEvent(event)

SpecEngine == InitEngine /\ [][NextEngine]_vars

(***************************************************************************)
(* SpecCodec: the packet codec alone, called with device names of every    *)
(* length up to MaxNameLen and with characters of 1 to 4 UTF-8 bytes.      *)
(***************************************************************************)
\* e acute (2 bytes), the euro sign (3), an emoji (4), a lone surrogate
WideChars == {233, 8364, 128512, 55296}

\* n characters, all 'A' but the one at index w (none when w = 0), which is c
Name(n, w, c) == [i \in 1..n |-> IF i = w THEN c ELSE 65]

\* where that character stands: first, or around the end of the name field
WidePositions == {1, MAX_DEVICE_NAME_LEN - 1, MAX_DEVICE_NAME_LEN, MAX_DEVICE_NAME_LEN + 1}

DeviceNames ==
    {DEVICE_NAME} \cup {Name(n, 0, 65) : n \in 0..MaxNameLen}
                  \cup {Name(n, w, c) : n \in 1..MaxNameLen, w \in WidePositions,
                                         c \in WideChars}

OnairInputs == [1..2 -> BOOLEAN] \cup [1..4 -> BOOLEAN]

InitCodec ==
    /\ pc = "codec"
    /\ exc = ""
    /\ port = NoPort
    /\ midi_main = NoEngine
    /\ last_src_port_name = NoPort
    /\ pkt = NONE
    /\ sent_onair = << >>
    /\ run_flips = << >>
    /\ nev = 0
    /\ nplug = 0
    /\ dev_name \in DeviceNames

\* ProDjLink.onair_pkt(device_name, flags)
CallOnairPkt(flags) ==
    /\ pc = "codec"
    /\ IF format_device_name_raises(dev_name)
       THEN pc' = "exit" /\ exc' = "onair_pkt: UnicodeEncodeError" /\ UNCHANGED pkt
       ELSE pkt' = onair_pkt(dev_name, flags) /\ UNCHANGED <<pc, exc>>
    /\ UNCHANGED <<port, midi_main, last_src_port_name, sent_onair, run_flips, nev, nplug,
                   dev_name>>

\* ProDjLink.fader_start_pkt(device_name, channel, stop)
CallFaderStartPkt(channel, stop) ==
    /\ pc = "codec"
    /\ IF format_device_name_raises(dev_name)
       THEN pc' = "exit" /\ exc' = "fader_start_pkt: UnicodeEncodeError" /\ UNCHANGED pkt
       ELSE pkt' = fader_start_pkt(dev_name, channel, stop) /\ UNCHANGED <<pc, exc>>
    /\ UNCHANGED <<port, midi_main, last_src_port_name, sent_onair, run_flips, nev, nplug,
                   dev_name>>

NextCodec ==
    \/ \E flags \in OnairInputs : CallOnairPkt(flags)
    \/ \E channel \in 0..3, stop \in BOOLEAN : CallFaderStartPkt(channel, stop)

SpecCodec == InitCodec /\ [][NextCodec]_vars

(***************************************************************************)
(* Properties.                                                             *)
(***************************************************************************)
\* a step in which the engine handled an event and returned
Handled == nev' = nev + 1 /\ pc' = "main"

\* the event of a Handled step (prev_event is set to it at the end of the call)
TheEvent == midi_main'.prev_event

\* out holds packet p
HasPacket(out, p) ==
    \E i \in 0..(Len(out) - Len(p)) : SubSeq(out, i + 1, i + Len(p)) = p

\* C1: two on-air packets that one engine returns one after the other are never
\* identical, and last_onair_pkt is None until the first of them is returned and
\* from then on the one returned last: a packet is returned only when it differs
\* from last_onair_pkt, which every computed packet replaces.
C1_NoRepeatedOnair ==
    pc = "main" =>
        /\ \A i \in 1..(Len(sent_onair) - 1) : sent_onair[i] # sent_onair[i + 1]
        /\ midi_main.last_onair_pkt =
               IF sent_onair = << >> THEN NONE ELSE sent_onair[Len(sent_onair)]

\* three on-air packets were returned, the last one by the last event
C1_Witness ==
    /\ pc = "main"
    /\ Len(sent_onair) = 3
    /\ pkt = sent_onair[3]
    /\ sent_onair[1] = sent_onair[3]

\* C2: a fader start note whose packet differs from last_fader_start_pkt has that
\* packet in what the call returns, whatever happens to the on-air packet.
C2_FaderStartReturned ==
    [][(/\ Handled
        /\ TheEvent.type = "NOTEON"
        /\ midi_main.djm_enum.FADER_START1_NOTE > 0
        /\ InRange(TheEvent.param, midi_main.djm_enum.FADER_START1_NOTE,
                   midi_main.djm_enum.CH_MAX)
        /\ midi_main'.last_fader_start_pkt # midi_main.last_fader_start_pkt)
       => HasPacket(pkt', midi_main'.last_fader_start_pkt)]_vars

\* C3: a controller event delivered a second time in a row returns no packet.
C3_RedeliveryReturnsNothing ==
    [][(/\ Handled
        /\ midi_main.prev_event.type = "CONTROLLER"
        /\ TheEvent = midi_main.prev_event)
       => pkt' = EMPTY]_vars

\* C4: with the threshold fixed, onair_fader[i] flips at most once within a run
\* of channel fader events whose values never increase, and at most once within
\* a run whose values never decrease.
C4_OneFlipPerRun ==
    pc = "main" =>
        \A i \in 1..Len(run_flips) : run_flips[i].dec <= 1 /\ run_flips[i].inc <= 1

\* C5: handling an event never raises, whatever the mixer table and the event:
\* the process ends only when the user interrupts it.
C5_NeverRaises == pc = "exit" => exc \in {INTERRUPTED_INPUT, INTERRUPTED_SEND}

\* every field of an engine is as __init__ leaves it
IsDefault(mm) ==
    /\ Len(mm.fader_value) = mm.djm_enum.CH_MAX
    /\ Len(mm.onair_fader) = mm.djm_enum.CH_MAX
    /\ Len(mm.cross_fader_assign) = mm.djm_enum.CH_MAX
    /\ \A i \in 1..mm.djm_enum.CH_MAX :
          /\ mm.fader_value[i] = 0
          /\ mm.onair_fader[i] = FALSE
          /\ mm.cross_fader_assign[i] = 64
    /\ mm.xfader_value = 64
    /\ mm.xfader_channel = "AB"
    /\ mm.fader_th = 1
    /\ mm.last_fader_start_pkt = NONE
    /\ mm.last_onair_pkt = NONE
    /\ mm.prev_event = NoEvent

\* the engine with its attachment left out
EngineState(mm) == [mm EXCEPT !.source_port = NoPort]

Detached == pc = "main" /\ midi_main.source_port = NoPort

\* a step of main that connects the engine to a device
Reattached == Detached /\ pc' = "main" /\ midi_main'.source_port # NoPort

\* C6: after a reattach to a device whose label differs from the label of the
\* device attached before, the engine that handles the next event has every
\* field at its construction default.
C6_NewLabelResets ==
    [][(/\ Reattached
        /\ last_src_port_name # NoPort
        /\ midi_main'.source_port # last_src_port_name)
       => IsDefault(midi_main')]_vars

\* events were handled, and the engine attached now has handled none
C6_Witness ==
    /\ Attached
    /\ nev > 0
    /\ last_src_port_name = "DJM-450"
    /\ midi_main.djm_enum = DJM450
    /\ IsDefault(midi_main)

\* C7: a detach returns no packet and changes nothing of the engine but its
\* attachment; nothing changes while it is detached; a reattach to a device of
\* the same label changes nothing but the attachment.
C7_SameLabelKeepsState ==
    [][/\ (Attached /\ pc' = "main" /\ midi_main'.source_port = NoPort)
            => /\ EngineState(midi_main') = EngineState(midi_main)
               /\ pkt' = NONE
               /\ last_src_port_name' = last_src_port_name
       /\ (Detached /\ pc' = "main" /\ midi_main'.source_port = NoPort)
            => midi_main' = midi_main
       /\ (Reattached /\ midi_main'.source_port = last_src_port_name)
            => EngineState(midi_main') = EngineState(midi_main)]_vars

\* the engine was detached after its last event, is attached again, and has the
\* levels, the threshold and the packets of before
C7_Witness ==
    /\ Attached
    /\ pkt = NONE
    /\ midi_main.fader_value[1] = 3
    /\ midi_main.onair_fader[1]
    /\ midi_main.fader_th = 2
    /\ midi_main.last_onair_pkt # NONE
    /\ midi_main.prev_event # NoEvent

\* C8: no engine is ever built without a mixer table, and the program does not
\* fail on a device whose label no table knows.
C8_NoEngineWithoutTable ==
    /\ exc # "MidiMain.__init__: AttributeError"
    /\ pc = "main" => midi_main.djm_enum # NoEnum

\* C9: the region a cross fader event with value v leaves, p being the value
\* stored before: A for 0, B for 127, AB for 2..125, A for 1 unless v > p, B for
\* 126 unless v < p; v becomes the stored value.
C9_CrossFaderRegion ==
    [][(/\ Handled
        /\ TheEvent.type = "CONTROLLER"
        /\ TheEvent.param = midi_main.djm_enum.CROSS_FADER)
       => LET v == TheEvent.value
              p == midi_main.xfader_value
              r == midi_main'.xfader_channel
          IN  /\ midi_main'.xfader_value = v
              /\ v = 0 => r = "A"
              /\ v = 127 => r = "B"
              /\ v \in 2..125 => r = "AB"
              /\ v = 1 => ((r = "A") <=> ~(v > p))
              /\ v = 126 => ((r = "B") <=> ~(v < p))]_vars

\* the cross fader came up from 0 to 1 and the region is no longer A
C9_Witness ==
    /\ pc = "main"
    /\ nev >= 2
    /\ midi_main.prev_event = CC(midi_main.djm_enum.CROSS_FADER, 1)
    /\ midi_main.xfader_channel = "AB"

AssignSum(mm) == mm.cross_fader_assign[1] + mm.cross_fader_assign[2]

IsAssignEvent(mm, event) ==
    /\ event.type = "CONTROLLER"
    /\ InRange(event.param, mm.djm_enum.FIRST_CROSS_FADER_ASSIGN, mm.djm_enum.CH_MAX)

\* C10, as amended: on a mixer of 2 channels an assign event with value v at
\* either control leaves assign = [v, 127 - v]; assign is either the
\* construction default [64, 64] or sums to 127, and once it sums to 127 it does
\* so for ever.
C10_AssignMirrored ==
    [][(pc' = "main" /\ midi_main'.djm_enum.CH_MAX = 2)
       => /\ (Handled /\ IsAssignEvent(midi_main, TheEvent))
               => midi_main'.cross_fader_assign
                      = <<TheEvent.value, 127 - TheEvent.value>>
          /\ midi_main'.cross_fader_assign = <<64, 64>> \/ AssignSum(midi_main') = 127
          /\ (midi_main.djm_enum.CH_MAX = 2 /\ AssignSum(midi_main) = 127)
               => AssignSum(midi_main') = 127]_vars

\* the second assign control of a mixer of 2 channels was moved to 0
C10_Witness ==
    /\ pc = "main"
    /\ midi_main.djm_enum.CH_MAX = 2
    /\ midi_main.prev_event = CC(midi_main.djm_enum.FIRST_CROSS_FADER_ASSIGN + 1, 0)
    /\ midi_main.cross_fader_assign = <<0, 127>>

\* C10, as claimed: on a mixer of 2 channels assign[0] + assign[1] is 127 in
\* every reachable state.
C10_SumAlways127 ==
    (pc = "main" /\ midi_main.djm_enum.CH_MAX = 2) => AssignSum(midi_main) = 127

\* the event handled last is a note of the fader start range of a mixer that has one
LastWasFaderStart ==
    /\ pc = "main"
    /\ midi_main.prev_event.type = "NOTEON"
    /\ midi_main.djm_enum.FADER_START1_NOTE > 0
    /\ InRange(midi_main.prev_event.param, midi_main.djm_enum.FADER_START1_NOTE,
               midi_main.djm_enum.CH_MAX)

\* the bytes of a packet after the header, the type, the name field and the tag
Payload(p) == SubSeq(p, Len(HEADER) + 1 + MAX_DEVICE_NAME_LEN + 5 + 1, Len(p))

\* C11: the fader start packet built for a note has 4 states whatever the mixer;
\* the state at index note - base is 1 for velocity 0 and 0 otherwise, and every
\* other state is 2.
C11_FaderStartStates ==
    LastWasFaderStart =>
        LET st == Payload(midi_main.last_fader_start_pkt)
            i  == midi_main.prev_event.param - midi_main.djm_enum.FADER_START1_NOTE
        IN  /\ IsFaderStart(midi_main.last_fader_start_pkt)
            /\ Len(st) = 4
            /\ \A k \in 1..4 :
                  st[k] = IF k = i + 1
                          THEN (IF midi_main.prev_event.value = 0 THEN 1 ELSE 0)
                          ELSE 2

\* the start button of the last channel was released (velocity 0) after another
\* fader start note
C11_Witness ==
    /\ LastWasFaderStart
    /\ nev >= 2
    /\ midi_main.prev_event = NoteOn(105, 0)
    /\ Payload(midi_main.last_fader_start_pkt) = <<2, 2, 2, 1>>

\* C12: whatever the device name (shorter than, as long as or longer than 20,
\* with characters of several bytes or not), its encoded field is 20 bytes long
\* and encoding it never raises, so that an on-air packet is 41 bytes plus one
\* per channel and a fader start packet is 40 bytes.
C12_NameFieldIs20Bytes ==
    /\ pc # "exit"
    /\ pc = "codec" /\ ~format_device_name_raises(dev_name) =>
          /\ Len(format_device_name(dev_name)) = MAX_DEVICE_NAME_LEN
          /\ \A flags \in OnairInputs :
                Len(onair_pkt(dev_name, flags)) = 41 + Len(flags)
          /\ IsFaderStart(pkt) => Len(pkt) = 40

\* the event matches no address and no note that the engine's table recognises
Unrecognised(mm, event) ==
    LET E == mm.djm_enum
    IN  IF event.type = "CONTROLLER"
        THEN /\ event.param # E.CROSS_FADER
             /\ ~InRange(event.param, E.CH1_FADER, E.CH_MAX)
             /\ ~InRange(event.param, E.FIRST_CROSS_FADER_ASSIGN, E.CH_MAX)
             /\ ~(E.CH_FADER > 0 /\ event.param = E.CH_FADER)
        ELSE IF event.type = "NOTEON"
        THEN \/ E.FADER_START1_NOTE <= 0
             \/ ~InRange(event.param, E.FADER_START1_NOTE, E.CH_MAX)
        ELSE TRUE

\* C13: handling an event that matches nothing recognised (a controller at another
\* address, a note outside the start range, a note on a mixer with no start-note
\* base, any other event type) returns no packet and changes no field of the
\* engine but prev_event, which becomes that event; last_onair_pkt is untouched.
C13_UnrecognisedIsInert ==
    pc = "main" =>
        \A event \in Events(midi_main.djm_enum) :
            Unrecognised(midi_main, event) =>
                \A r \in {wait_handle_input_event(midi_main, event)} :
                    /\ r.raised = ""
                    /\ r.ret = EMPTY
                    /\ r.mm = [midi_main EXCEPT !.prev_event = event]

\* the status bytes of an on-air packet, one per channel
OnairStatus(p) == SubSeq(p, Len(HEADER) + 1 + MAX_DEVICE_NAME_LEN + 5 + 1, Len(p) - 5)

AllThru(mm) == \A i \in 1..Len(mm.cross_fader_assign) : mm.cross_fader_assign[i] = 64

IsCrossFaderEvent(mm, event) ==
    event.type = "CONTROLLER" /\ event.param = mm.djm_enum.CROSS_FADER

\* C14: a channel assigned 64 (thru) is on air in the packet exactly when its fader
\* is, whatever the cross fader region; so, while every channel is assigned 64,
\* a cross fader event leaves the on-air vector as it was and, once an on-air
\* packet has been sent, returns none.
C14_ThruIgnoresCrossFader ==
    [][Handled =>
         /\ midi_main'.last_onair_pkt # NONE =>
               \A i \in 1..Len(midi_main'.cross_fader_assign) :
                   midi_main'.cross_fader_assign[i] = 64 =>
                       OnairStatus(midi_main'.last_onair_pkt)[i]
                           = int(midi_main'.onair_fader[i])
         /\ IsCrossFaderEvent(midi_main, TheEvent) /\ AllThru(midi_main) =>
               /\ onair_ch(midi_main') = onair_ch(midi_main)
               /\ midi_main.last_onair_pkt # NONE =>
                     /\ ~IsOnair(pkt')
                     /\ midi_main'.last_onair_pkt = midi_main.last_onair_pkt]_vars

\* the cross fader went to the B end with every channel thru and the first one
\* on air: no packet came back and that channel is still on air
C14_Witness ==
    /\ pc = "main"
    /\ midi_main.prev_event = CC(midi_main.djm_enum.CROSS_FADER, 127)
    /\ midi_main.xfader_channel = "B"
    /\ AllThru(midi_main)
    /\ midi_main.onair_fader[1]
    /\ Len(sent_onair) > 0
    /\ pkt = EMPTY
    /\ OnairStatus(midi_main.last_onair_pkt)[1] = 1

IsFaderStartEvent(mm, event) ==
    /\ event.type = "NOTEON"
    /\ mm.djm_enum.FADER_START1_NOTE > 0
    /\ InRange(event.param, mm.djm_enum.FADER_START1_NOTE, mm.djm_enum.CH_MAX)

IsChannelFaderEvent(mm, event) ==
    /\ event.type = "CONTROLLER"
    /\ InRange(event.param, mm.djm_enum.CH1_FADER, mm.djm_enum.CH_MAX)

\* C15: a fader start note for channel i sets that channel's assignment from the
\* event handled just before it alone: after a cross fader event of value p, to
\* 0 if p >= 64 and to 127 otherwise; after a channel fader event, of any
\* channel, to 64; after any other event, or none, it stays. The assignments of
\* the other channels stay.
C15_NoteAssignFromPrevEvent ==
    [][Handled /\ IsFaderStartEvent(midi_main, TheEvent) =>
         LET i  == TheEvent.param - midi_main.djm_enum.FADER_START1_NOTE
             pe == midi_main.prev_event
             a  == midi_main.cross_fader_assign
         IN  midi_main'.cross_fader_assign =
                 [a EXCEPT ![i + 1] =
                     IF IsCrossFaderEvent(midi_main, pe)
                     THEN (IF pe.value >= 64 THEN 0 ELSE 127)
                     ELSE IF IsChannelFaderEvent(midi_main, pe)
                     THEN 64
                     ELSE a[i + 1]]]_vars

\* the start note of the last channel came right after the cross fader was moved
\* to the A end: that channel, and no other, is now assigned 127
C15_Witness ==
    /\ pc = "main"
    /\ nev = 2
    /\ midi_main.prev_event = NoteOn(105, 127)
    /\ midi_main.xfader_value = 0
    /\ midi_main.cross_fader_assign = <<64, 64, 64, 127>>

IsSlopeEvent(mm, event) ==
    /\ event.type = "CONTROLLER"
    /\ mm.djm_enum.CH_FADER > 0
    /\ event.param = mm.djm_enum.CH_FADER

\* C16: a fader curve event of value v sets the threshold to 1 if v >= 64 and to
\* 2 otherwise. If that differs from the threshold before, every channel is on
\* air exactly when its level is at least the new threshold, plus 1 if the
\* threshold went up; if it does not differ, no channel changes. The threshold
\* is 1 or 2 at all times, and 1 on a mixer whose table has no fader curve address.
C16_SlopeSetsThreshold ==
    [][Handled =>
         /\ midi_main'.fader_th \in {1, 2}
         /\ midi_main.djm_enum.CH_FADER <= 0 => midi_main'.fader_th = 1
         /\ IsSlopeEvent(midi_main, TheEvent) =>
               LET new == IF TheEvent.value >= 64 THEN 1 ELSE 2
                   old == midi_main.fader_th
               IN  /\ midi_main'.fader_th = new
                   /\ midi_main'.fader_value = midi_main.fader_value
                   /\ new # old =>
                         \A i \in 1..midi_main.djm_enum.CH_MAX :
                             midi_main'.onair_fader[i] =
                                 (midi_main.fader_value[i]
                                      >= new + (IF new > old THEN 1 ELSE 0))
                   /\ new = old => midi_main'.onair_fader = midi_main.onair_fader]_vars

\* the first fader was on air at level 2 when the curve control raised the
\* threshold to 2: the channel went off air
C16_Witness ==
    /\ pc = "main"
    /\ nev = 2
    /\ midi_main.prev_event = CC(midi_main.djm_enum.CH_FADER, 63)
    /\ midi_main.fader_th = 2
    /\ midi_main.fader_value[1] = 2
    /\ ~midi_main.onair_fader[1]
    /\ Len(sent_onair) = 2

\* C17: fader_value, onair_fader and cross_fader_assign have one entry per channel
\* of the mixer, no event reaches an index outside them, and an on-air packet
\* carries one status byte per channel.
C17_ListsSizedByChannelCount ==
    /\ exc # "wait_handle_input_event: IndexError"
    /\ pc = "main" =>
          /\ Len(midi_main.fader_value) = midi_main.djm_enum.CH_MAX
          /\ Len(midi_main.onair_fader) = midi_main.djm_enum.CH_MAX
          /\ Len(midi_main.cross_fader_assign) = midi_main.djm_enum.CH_MAX
          /\ midi_main.last_onair_pkt # NONE =>
                /\ Len(OnairStatus(midi_main.last_onair_pkt)) = midi_main.djm_enum.CH_MAX
                /\ Len(midi_main.last_onair_pkt) = 41 + midi_main.djm_enum.CH_MAX
          /\ IsOnair(pkt) => Len(OnairStatus(pkt)) = midi_main.djm_enum.CH_MAX

\* a 2-channel mixer with the cross fader in the middle, where the gate list has
\* 4 entries: the packet built from it has 2 status bytes
C17_Witness ==
    /\ pc = "main"
    /\ midi_main.djm_enum.CH_MAX = 2
    /\ midi_main.xfader_channel = "AB"
    /\ Len(get_onair_xfader(midi_main)) = 4
    /\ IsOnair(pkt)
    /\ OnairStatus(pkt) = <<0, 1>>

\* C18: a channel whose fader is on air has a level of at least the threshold,
\* and a channel whose level is at least the threshold plus 1 is on air; the
\* two can differ only at a level equal to the threshold.
C18_OnairFaderWithinHysteresis ==
    pc = "main" =>
        \A i \in 1..midi_main.djm_enum.CH_MAX :
            /\ midi_main.onair_fader[i] => midi_main.fader_value[i] >= midi_main.fader_th
            /\ midi_main.fader_value[i] >= midi_main.fader_th + 1 => midi_main.onair_fader[i]

\* two faders stand at the threshold: the first came down to it and is off air,
\* the last came up to it and is on air
C18_Witness ==
    /\ pc = "main"
    /\ midi_main.fader_value[1] = midi_main.fader_th
    /\ ~midi_main.onair_fader[1]
    /\ midi_main.fader_value[midi_main.djm_enum.CH_MAX] = midi_main.fader_th
    /\ midi_main.onair_fader[midi_main.djm_enum.CH_MAX]

\* C19: between events last_onair_pkt is None or the encoding of the on-air vector
\* that the engine's present faders, assignments and cross fader region give; it
\* is never stale.
C19_LastOnairPktIsCurrent ==
    pc = "main" =>
        \/ midi_main.last_onair_pkt = NONE
        \/ midi_main.last_onair_pkt = onair_pkt(DEVICE_NAME, onair_ch(midi_main))

\* the first channel's fader is up but the channel is assigned to side B and the
\* cross fader stands at the A end: the packet just returned has it off air
C19_Witness ==
    /\ pc = "main"
    /\ midi_main.xfader_channel = "A"
    /\ midi_main.cross_fader_assign[1] = 127
    /\ midi_main.onair_fader[1]
    /\ pkt = midi_main.last_onair_pkt
    /\ IsOnair(pkt)
    /\ OnairStatus(pkt)[1] = 0

\* C20: whenever an event is handled, the table of the engine that handles it is
\* the one the label of the attached device resolves to, however the devices
\* come, go and replace one another around the search and the connect, a device
\* replaced between the first search and the first connect included.
C20_EngineMatchesDevice ==
    [][nev' = nev + 1 =>
         midi_main.djm_enum = get_djm_enum(midi_main.source_port)]_vars
====
